---- MODULE Spec2Model ----
(***************************************************************************)
(* Model of vllm/inputs/data.py: the prompt schemas, the normalizing       *)
(* constructors token_inputs / embed_inputs / empty_inputs and the         *)
(* encoder/decoder helpers build_explicit_enc_dec_prompt,                  *)
(* zip_enc_dec_prompts and to_enc_dec_tuple_list.                          *)
(*                                                                         *)
(* Python passes objects by reference, so the model keeps a heap: a        *)
(* sequence of objects whose index is the object's address.  Mutable       *)
(* objects (list, dict, tensor) live on the heap; immutable values (None,  *)
(* str, int, tuple) and references are values.  Every function of the      *)
(* module is an operator from a heap and argument values to a record       *)
(* [heap, ret, exc]: the heap after the call, the value returned and the   *)
(* exception raised ("none" when the call returns).                        *)
(***************************************************************************)
EXTENDS Integers, Sequences, FiniteSets, TLC

\* Longest list of prompts a caller passes.
MaxLen == 2

\* Number of calls made in one behaviour.
MaxCalls == 3

VARIABLES
    heap,   \* the objects allocated so far, by address
    pre,    \* the heap as it was when the last call was made
    calls   \* the calls made so far: [op, args, ret, exc]

vars == <<heap, pre, calls>>

----------------------------------------------------------------------------
\* Python values.  Each is a one-field record, so two values of different
\* kinds differ by their field name.

None == [none |-> TRUE]
Str(s) == [str |-> s]
IntVal(i) == [int |-> i]
Ref(a) == [ref |-> a]
Tuple(s) == [tuple |-> s]

IsNone(v) == DOMAIN v = {"none"}
IsStr(v) == DOMAIN v = {"str"}
IsInt(v) == DOMAIN v = {"int"}
IsRef(v) == DOMAIN v = {"ref"}

\* Heap objects.
List(s) == [list |-> s]
Dict(d) == [dict |-> d]
Tensor(s) == [tensor |-> s]

IsList(o) == DOMAIN o = {"list"}
IsDict(o) == DOMAIN o = {"dict"}
IsTensor(o) == DOMAIN o = {"tensor"}

EmptyDict == [k \in {} |-> None]

\* d[key] = value on a dict.
SetItem(d, key, value) ==
    [k \in DOMAIN d \cup {key} |-> IF k = key THEN value ELSE d[k]]

NoExc == "none"

Min(a, b) == IF a <= b THEN a ELSE b

----------------------------------------------------------------------------
\* The prompt schemas (TypedDicts): which heap objects conform to them.

IsMultiModalDataDict(h, v) ==
    /\ IsRef(v)
    /\ IsDict(h[v.ref])
    /\ DOMAIN h[v.ref].dict \subseteq {"image"}

IsTextPrompt(h, v) ==
    /\ IsRef(v)
    /\ IsDict(h[v.ref])
    /\ "prompt" \in DOMAIN h[v.ref].dict
    /\ DOMAIN h[v.ref].dict \subseteq {"prompt", "multi_modal_data"}

IsTokensPrompt(h, v) ==
    /\ IsRef(v)
    /\ IsDict(h[v.ref])
    /\ "prompt_token_ids" \in DOMAIN h[v.ref].dict
    /\ DOMAIN h[v.ref].dict \subseteq {"prompt_token_ids", "multi_modal_data"}

IsEmbedsPrompt(h, v) ==
    /\ IsRef(v)
    /\ IsDict(h[v.ref])
    /\ "prompt_embeds" \in DOMAIN h[v.ref].dict
    /\ DOMAIN h[v.ref].dict \subseteq {"prompt_embeds", "multi_modal_data"}

IsSingletonPrompt(h, v) ==
    \/ IsStr(v)
    \/ IsTextPrompt(h, v)
    \/ IsTokensPrompt(h, v)
    \/ IsEmbedsPrompt(h, v)

IsExplicitEncoderDecoderPrompt(h, v) ==
    /\ IsRef(v)
    /\ IsDict(h[v.ref])
    /\ DOMAIN h[v.ref].dict = {"encoder_prompt", "decoder_prompt"}

----------------------------------------------------------------------------
\* The normalizing constructors.

\* A value Python treats as true: not None, not "" and not an empty dict.
Truthy(h, v) ==
    /\ v # None
    /\ v # Str("")
    /\ IsRef(v) => h[v.ref] # Dict(EmptyDict)

\* token_inputs with "if prompt:" / "if multi_modal_data:" in place of the
\* tests against None: an empty string or mapping is dropped.
token_inputs_truthy(h, prompt_token_ids, prompt, multi_modal_data) ==
    LET inputs0 == [type |-> Str("token"),
                    prompt_token_ids |-> prompt_token_ids]
        inputs1 == IF Truthy(h, prompt)
                   THEN SetItem(inputs0, "prompt", prompt)
                   ELSE inputs0
        inputs2 == IF Truthy(h, multi_modal_data)
                   THEN SetItem(inputs1, "multi_modal_data", multi_modal_data)
                   ELSE inputs1
    IN  [heap |-> Append(h, Dict(inputs2)),
         ret |-> Ref(Len(h) + 1),
         exc |-> NoExc]

token_inputs(h, prompt_token_ids, prompt, multi_modal_data) ==
    LET inputs0 == [type |-> Str("token"),
                    prompt_token_ids |-> prompt_token_ids]
        inputs1 == IF prompt # None
                   THEN SetItem(inputs0, "prompt", prompt)
                   ELSE inputs0
        inputs2 == IF multi_modal_data # None
                   THEN SetItem(inputs1, "multi_modal_data", multi_modal_data)
                   ELSE inputs1
    IN  [heap |-> Append(h, Dict(inputs2)),
         ret |-> Ref(Len(h) + 1),
         exc |-> NoExc]

\* embed_inputs that stores multi_modal_data whether or not it is None.
embed_inputs_null_field(h, prompt_embeds, multi_modal_data) ==
    [heap |-> Append(h, Dict([type |-> Str("embed"),
                              prompt_embeds |-> prompt_embeds,
                              multi_modal_data |-> multi_modal_data])),
     ret |-> Ref(Len(h) + 1),
     exc |-> NoExc]

\* embed_inputs tagged "token", as if copied from token_inputs.
embed_inputs_token_tag(h, prompt_embeds, multi_modal_data) ==
    LET inputs0 == [type |-> Str("token"), prompt_embeds |-> prompt_embeds]
        inputs1 == IF multi_modal_data # None
                   THEN SetItem(inputs0, "multi_modal_data", multi_modal_data)
                   ELSE inputs0
    IN  [heap |-> Append(h, Dict(inputs1)),
         ret |-> Ref(Len(h) + 1),
         exc |-> NoExc]

embed_inputs(h, prompt_embeds, multi_modal_data) ==
    LET inputs0 == [type |-> Str("embed"), prompt_embeds |-> prompt_embeds]
        inputs1 == IF multi_modal_data # None
                   THEN SetItem(inputs0, "multi_modal_data", multi_modal_data)
                   ELSE inputs0
    IN  [heap |-> Append(h, Dict(inputs1)),
         ret |-> Ref(Len(h) + 1),
         exc |-> NoExc]

\* empty_inputs that hands out again the inputs record made last, when the
\* newest object is one.
empty_inputs_reuse(h) ==
    IF h # <<>> /\ IsDict(h[Len(h)]) /\ "type" \in DOMAIN h[Len(h)].dict
    THEN [heap |-> h, ret |-> Ref(Len(h)), exc |-> NoExc]
    ELSE [heap |-> Append(h, Dict([type |-> Str("empty")])),
          ret |-> Ref(Len(h) + 1),
          exc |-> NoExc]

empty_inputs(h) ==
    [heap |-> Append(h, Dict([type |-> Str("empty")])),
     ret |-> Ref(Len(h) + 1),
     exc |-> NoExc]

----------------------------------------------------------------------------
\* The encoder/decoder helpers.

\* build_explicit_enc_dec_prompt that fills a missing decoder prompt with
\* the empty string.
build_explicit_enc_dec_prompt_default(h, encoder_prompt, decoder_prompt) ==
    [heap |-> Append(h, Dict([encoder_prompt |-> encoder_prompt,
                              decoder_prompt |->
                                  IF decoder_prompt = None
                                  THEN Str("")
                                  ELSE decoder_prompt])),
     ret |-> Ref(Len(h) + 1),
     exc |-> NoExc]

\* build_explicit_enc_dec_prompt that enforces "only the encoder prompt may
\* have multi-modal data" by raising ValueError.
build_explicit_enc_dec_prompt_checked(h, encoder_prompt, decoder_prompt) ==
    IF /\ IsRef(decoder_prompt)
       /\ "multi_modal_data" \in DOMAIN h[decoder_prompt.ref].dict
    THEN [heap |-> h, ret |-> None, exc |-> "ValueError"]
    ELSE [heap |-> Append(h, Dict([encoder_prompt |-> encoder_prompt,
                                   decoder_prompt |-> decoder_prompt])),
          ret |-> Ref(Len(h) + 1),
          exc |-> NoExc]

build_explicit_enc_dec_prompt(h, encoder_prompt, decoder_prompt) ==
    [heap |-> Append(h, Dict([encoder_prompt |-> encoder_prompt,
                              decoder_prompt |-> decoder_prompt])),
     ret |-> Ref(Len(h) + 1),
     exc |-> NoExc]

\* zip(enc_prompts, dec_prompts): the positions both lists have.
zip(enc, dec) ==
    [i \in 1..Min(Len(enc), Len(dec)) |-> <<enc[i], dec[i]>>]

\* The list comprehension of zip_enc_dec_prompts: one call of
\* build_explicit_enc_dec_prompt per zipped position, in order.  An
\* exception raised by a call leaves the comprehension.
RECURSIVE ZipComprehension(_, _, _, _)
ZipComprehension(h, zipped, i, acc) ==
    IF i > Len(zipped)
    THEN [heap |-> h, items |-> acc, exc |-> NoExc]
    ELSE LET r == build_explicit_enc_dec_prompt(h, zipped[i][1], zipped[i][2])
         IN  IF r.exc # NoExc
             THEN [heap |-> r.heap, items |-> acc, exc |-> r.exc]
             ELSE ZipComprehension(r.heap, zipped, i + 1, Append(acc, r.ret))

\* zip_enc_dec_prompts with zip(..., strict=True): lists of different
\* lengths raise ValueError.
zip_enc_dec_prompts_strict(h, enc_prompts, dec_prompts) ==
    LET c == ZipComprehension(h, zip(h[enc_prompts.ref].list,
                                     h[dec_prompts.ref].list), 1, <<>>)
    IN  IF Len(h[enc_prompts.ref].list) # Len(h[dec_prompts.ref].list)
        THEN [heap |-> c.heap, ret |-> None, exc |-> "ValueError"]
        ELSE [heap |-> Append(c.heap, List(c.items)),
              ret |-> Ref(Len(c.heap) + 1),
              exc |-> NoExc]

zip_enc_dec_prompts(h, enc_prompts, dec_prompts) ==
    LET c == ZipComprehension(h, zip(h[enc_prompts.ref].list,
                                     h[dec_prompts.ref].list), 1, <<>>)
    IN  IF c.exc # NoExc
        THEN [heap |-> c.heap, ret |-> None, exc |-> c.exc]
        ELSE [heap |-> Append(c.heap, List(c.items)),
              ret |-> Ref(Len(c.heap) + 1),
              exc |-> NoExc]

\* enc_dec_prompt["encoder_prompt"], enc_dec_prompt["decoder_prompt"]: a
\* subscript with a key the dict lacks raises KeyError.
HasPairKeys(h, v) ==
    /\ IsRef(v)
    /\ IsDict(h[v.ref])
    /\ {"encoder_prompt", "decoder_prompt"} \subseteq DOMAIN h[v.ref].dict

\* to_enc_dec_tuple_list with the two subscripts in the other order.
to_enc_dec_tuple_list_swapped(h, enc_dec_prompts) ==
    LET items == h[enc_dec_prompts.ref].list
    IN  IF \A i \in DOMAIN items : HasPairKeys(h, items[i])
        THEN [heap |-> Append(h, List(
                  [i \in DOMAIN items |->
                      Tuple(<<h[items[i].ref].dict["decoder_prompt"],
                              h[items[i].ref].dict["encoder_prompt"]>>)])),
              ret |-> Ref(Len(h) + 1),
              exc |-> NoExc]
        ELSE [heap |-> h, ret |-> None, exc |-> "KeyError"]

\* The elements of s without those that repeat an earlier one.
RECURSIVE Unique(_)
Unique(s) ==
    IF s = <<>>
    THEN <<>>
    ELSE LET front == SubSeq(s, 1, Len(s) - 1)
         IN  IF \E i \in DOMAIN front : front[i] = s[Len(s)]
             THEN Unique(front)
             ELSE Append(Unique(front), s[Len(s)])

\* to_enc_dec_tuple_list that keeps one tuple of each kind.
to_enc_dec_tuple_list_unique(h, enc_dec_prompts) ==
    LET items == h[enc_dec_prompts.ref].list
    IN  IF \A i \in DOMAIN items : HasPairKeys(h, items[i])
        THEN [heap |-> Append(h, List(Unique(
                  [i \in DOMAIN items |->
                      Tuple(<<h[items[i].ref].dict["encoder_prompt"],
                              h[items[i].ref].dict["decoder_prompt"]>>)]))),
              ret |-> Ref(Len(h) + 1),
              exc |-> NoExc]
        ELSE [heap |-> h, ret |-> None, exc |-> "KeyError"]

\* to_enc_dec_tuple_list that takes the prompts out of each pair with
\* dict.pop, emptying the pairs it was given.
to_enc_dec_tuple_list_pop(h, enc_dec_prompts) ==
    LET items == h[enc_dec_prompts.ref].list
        popped == {items[i].ref : i \in DOMAIN items}
    IN  IF \A i \in DOMAIN items : HasPairKeys(h, items[i])
        THEN [heap |-> Append(
                  [a \in DOMAIN h |->
                      IF a \in popped THEN Dict(EmptyDict) ELSE h[a]],
                  List([i \in DOMAIN items |->
                      Tuple(<<h[items[i].ref].dict["encoder_prompt"],
                              h[items[i].ref].dict["decoder_prompt"]>>)])),
              ret |-> Ref(Len(h) + 1),
              exc |-> NoExc]
        ELSE [heap |-> h, ret |-> None, exc |-> "KeyError"]

to_enc_dec_tuple_list(h, enc_dec_prompts) ==
    LET items == h[enc_dec_prompts.ref].list
    IN  IF \A i \in DOMAIN items : HasPairKeys(h, items[i])
        THEN [heap |-> Append(h, List(
                  [i \in DOMAIN items |->
                      Tuple(<<h[items[i].ref].dict["encoder_prompt"],
                              h[items[i].ref].dict["decoder_prompt"]>>)])),
              ret |-> Ref(Len(h) + 1),
              exc |-> NoExc]
        ELSE [heap |-> h, ret |-> None, exc |-> "KeyError"]

----------------------------------------------------------------------------
\* The caller's objects.  Addresses 1..6 hold the same objects in every
\* initial state; the next two hold the lists of prompts the caller passes
\* to zip_enc_dec_prompts.  The TokensPrompt shares the token-id list the
\* caller also passes to token_inputs.

BaseHeap ==
    << List(<<IntVal(1), IntVal(2), IntVal(3)>>),       \* 1: token ids
       Dict(EmptyDict),                                 \* 2: {}
       Dict([image |-> Str("px")]),                     \* 3: {"image": "px"}
       Tensor(<<1, 2>>),                                \* 4: a tensor
       Dict([prompt_token_ids |-> Ref(1)]),             \* 5: TokensPrompt
       Dict([prompt |-> Str("bar"),
             multi_modal_data |-> Ref(3)]) >>           \* 6: TextPrompt

EncPromptsArg == Ref(Len(BaseHeap) + 1)
DecPromptsArg == Ref(Len(BaseHeap) + 2)

\* The singleton prompts the caller chooses among: a bare string, a
\* TokensPrompt and a TextPrompt that carries multi-modal data.
SingletonPrompts == {Str("hello"), Ref(5), Ref(6)}

DecoderPrompts == SingletonPrompts \cup {None}

SeqsUpTo(S, n) == UNION {[1..k -> S] : k \in 0..n}

Addresses(h) == 1..Len(h)

TokenIdLists(h) ==
    {a \in Addresses(h) :
        /\ IsList(h[a])
        /\ \A i \in DOMAIN h[a].list : IsInt(h[a].list[i])}

MultiModalDataDicts(h) ==
    {a \in Addresses(h) : IsMultiModalDataDict(h, Ref(a))}

Tensors(h) == {a \in Addresses(h) : IsTensor(h[a])}

\* The lists of pairs zip_enc_dec_prompts has returned.
ZippedLists ==
    {calls[k].ret : k \in {j \in DOMAIN calls :
                              calls[j].op = "zip_enc_dec_prompts"}}

\* The pairs build_explicit_enc_dec_prompt has returned to the caller.
BuiltPairs ==
    {calls[k].ret : k \in {j \in DOMAIN calls :
                              calls[j].op = "build_explicit_enc_dec_prompt"}}

----------------------------------------------------------------------------
\* The state machine: one action per function of the module.

Call(op, args, h, r) ==
    /\ heap' = r.heap
    /\ pre' = h
    /\ calls' = Append(calls, [op |-> op, args |-> args,
                               ret |-> r.ret, exc |-> r.exc])

CallTokenInputs ==
    /\ Len(calls) < MaxCalls
    /\ \E ids \in TokenIdLists(heap),
          p \in {None, Str(""), Str("hello")},
          m \in {None} \cup {Ref(a) : a \in MultiModalDataDicts(heap)} :
          Call("token_inputs", <<Ref(ids), p, m>>, heap,
               token_inputs(heap, Ref(ids), p, m))

CallEmbedInputs ==
    /\ Len(calls) < MaxCalls
    /\ \E e \in Tensors(heap),
          m \in {None} \cup {Ref(a) : a \in MultiModalDataDicts(heap)} :
          Call("embed_inputs", <<Ref(e), m>>, heap,
               embed_inputs(heap, Ref(e), m))

CallEmptyInputs ==
    /\ Len(calls) < MaxCalls
    /\ Call("empty_inputs", <<>>, heap, empty_inputs(heap))

CallBuildExplicitEncDecPrompt ==
    /\ Len(calls) < MaxCalls
    /\ \E e \in SingletonPrompts, d \in DecoderPrompts :
          Call("build_explicit_enc_dec_prompt", <<e, d>>, heap,
               build_explicit_enc_dec_prompt(heap, e, d))

\* The caller zips its two lists of prompts.
CallZipEncDecPrompts ==
    /\ Len(calls) < MaxCalls
    /\ Call("zip_enc_dec_prompts", <<EncPromptsArg, DecPromptsArg>>, heap,
            zip_enc_dec_prompts(heap, EncPromptsArg, DecPromptsArg))

\* The caller unzips a list zip_enc_dec_prompts returned ...
CallToEncDecTupleList ==
    /\ Len(calls) < MaxCalls
    /\ \E l \in ZippedLists :
          Call("to_enc_dec_tuple_list", <<l>>, heap,
               to_enc_dec_tuple_list(heap, l))

\* ... or a list it makes for the call out of pairs it built one at a time.
CallToEncDecTupleListOfBuilt ==
    /\ Len(calls) < MaxCalls
    /\ \E items \in SeqsUpTo(BuiltPairs, MaxLen) :
          /\ items # <<>>
          /\ LET h == Append(heap, List(items))
             IN  Call("to_enc_dec_tuple_list", <<Ref(Len(h))>>, h,
                      to_enc_dec_tuple_list(h, Ref(Len(h))))

\* Init: the caller's lists are ["hello", "world", "foo"] and
\* [<TextPrompt with multi-modal data>, None].
Init ==
    /\ heap = BaseHeap \o
                << List(<<Str("hello"), Str("world"), Str("foo")>>),
                   List(<<Ref(6), None>>) >>
    /\ pre = heap
    /\ calls = <<>>

Next ==
    \/ CallTokenInputs
    \/ CallEmbedInputs
    \/ CallEmptyInputs
    \/ CallBuildExplicitEncDecPrompt
    \/ CallZipEncDecPrompts
    \/ CallToEncDecTupleList
    \/ CallToEncDecTupleListOfBuilt

Spec == Init /\ [][Next]_vars

\* InitZip: the caller's lists range over every sequence of prompts of at
\* most MaxLen elements, and the lists ["hello", "world", "foo"] and
\* ["bar", "baz"].
ScenarioEnc == <<Str("hello"), Str("world"), Str("foo")>>
ScenarioDec == <<Str("bar"), Str("baz")>>

InitZip ==
    /\ \E enc \in SeqsUpTo(SingletonPrompts, MaxLen) \cup {ScenarioEnc},
          dec \in SeqsUpTo(DecoderPrompts, MaxLen) \cup {ScenarioDec} :
          heap = BaseHeap \o << List(enc), List(dec) >>
    /\ pre = heap
    /\ calls = <<>>

NextZip ==
    \/ CallZipEncDecPrompts
    \/ CallToEncDecTupleList

SpecZip == InitZip /\ [][NextZip]_vars

----------------------------------------------------------------------------
\* What the properties below read: the last call, the object it returned
\* and the lists the caller passed.

Last == calls[Len(calls)]

Returned(op) ==
    /\ calls # <<>>
    /\ Last.op = op
    /\ Last.exc = NoExc
    /\ IsRef(Last.ret)
    /\ Last.ret.ref \in DOMAIN heap

RetDict == heap[Last.ret.ref].dict
RetList == heap[Last.ret.ref].list

\* The dict of the i-th pair of the list a call returned.
PairDict(l, i) == heap[heap[l.ref].list[i].ref].dict

IsPairList(l) ==
    /\ IsRef(l)
    /\ IsList(heap[l.ref])
    /\ \A i \in DOMAIN heap[l.ref].list :
          IsExplicitEncoderDecoderPrompt(heap, heap[l.ref].list[i])

HasMultiModalData(h, v) ==
    /\ IsRef(v)
    /\ IsDict(h[v.ref])
    /\ "multi_modal_data" \in DOMAIN h[v.ref].dict

\* C1: token_inputs(ids, p, m) returns a record with type "token" and
\* prompt_token_ids the list passed; prompt is a field iff p is not None (and
\* is then p, the empty string included), multi_modal_data is a field iff m
\* is not None (and is then m, the empty mapping included); no other field
\* exists, so token_inputs([1,2,3], None, None) has exactly the fields type
\* and prompt_token_ids.
C1_TokenInputs ==
    (calls # <<>> /\ Last.op = "token_inputs") =>
        /\ Returned("token_inputs")
        /\ IsDict(heap[Last.ret.ref])
        /\ RetDict["type"] = Str("token")
        /\ RetDict["prompt_token_ids"] = Last.args[1]
        /\ heap[Last.args[1].ref] = pre[Last.args[1].ref]
        /\ ("prompt" \in DOMAIN RetDict) <=> (Last.args[2] # None)
        /\ (Last.args[2] # None) => RetDict["prompt"] = Last.args[2]
        /\ ("multi_modal_data" \in DOMAIN RetDict) <=> (Last.args[3] # None)
        /\ (Last.args[3] # None) =>
              RetDict["multi_modal_data"] = Last.args[3]
        /\ DOMAIN RetDict \subseteq
              {"type", "prompt_token_ids", "prompt", "multi_modal_data"}
        /\ (/\ pre[Last.args[1].ref].list = <<IntVal(1), IntVal(2), IntVal(3)>>
            /\ Last.args[2] = None
            /\ Last.args[3] = None) =>
              /\ DOMAIN RetDict = {"type", "prompt_token_ids"}
              /\ heap[RetDict["prompt_token_ids"].ref].list =
                    <<IntVal(1), IntVal(2), IntVal(3)>>

\* token_inputs was called with the empty string as prompt and the empty
\* mapping as multi-modal data, and stored both.
C1_Witness ==
    /\ Returned("token_inputs")
    /\ Last.args[2] = Str("")
    /\ Last.args[3] # None
    /\ pre[Last.args[3].ref] = Dict(EmptyDict)
    /\ DOMAIN RetDict =
          {"type", "prompt_token_ids", "prompt", "multi_modal_data"}

\* C2: embed_inputs(e, m) returns a record with type "embed" and
\* prompt_embeds e, whose field multi_modal_data exists iff m is not None
\* (and is then m), and which has no other field.
C2_EmbedInputs ==
    (calls # <<>> /\ Last.op = "embed_inputs") =>
        /\ Returned("embed_inputs")
        /\ IsDict(heap[Last.ret.ref])
        /\ RetDict["type"] = Str("embed")
        /\ RetDict["prompt_embeds"] = Last.args[1]
        /\ heap[Last.args[1].ref] = pre[Last.args[1].ref]
        /\ ("multi_modal_data" \in DOMAIN RetDict) <=> (Last.args[2] # None)
        /\ (Last.args[2] # None) =>
              RetDict["multi_modal_data"] = Last.args[2]
        /\ DOMAIN RetDict \subseteq {"type", "prompt_embeds", "multi_modal_data"}

\* embed_inputs was called without multi-modal data and returned a record
\* of exactly two fields.
C2_Witness ==
    /\ Returned("embed_inputs")
    /\ Last.args[2] = None
    /\ DOMAIN RetDict = {"type", "prompt_embeds"}

\* C3: every call of empty_inputs, whatever was called before it, returns
\* a record equal to {type: "empty"}, with no other field.
C3_EmptyInputs ==
    (calls # <<>> /\ Last.op = "empty_inputs") =>
        /\ Returned("empty_inputs")
        /\ heap[Last.ret.ref] = Dict([type |-> Str("empty")])

\* empty_inputs was called right after token_inputs returned a record that
\* carries a prompt and multi-modal data.
C3_Witness ==
    /\ Returned("empty_inputs")
    /\ Len(calls) >= 2
    /\ calls[Len(calls) - 1].op = "token_inputs"
    /\ calls[Len(calls) - 1].args[2] # None
    /\ calls[Len(calls) - 1].args[3] # None

\* C4: zip_enc_dec_prompts(enc, dec) raises nothing and returns a list of
\* exactly min(len(enc), len(dec)) pairs, the i-th with encoder_prompt ==
\* enc[i] and decoder_prompt == dec[i], for lists of any lengths, equal or
\* not, empty included; ["hello","world","foo"] zipped with ["bar","baz"]
\* gives exactly the pairs (hello, bar) and (world, baz).
C4_ZipTruncates ==
    (calls # <<>> /\ Last.op = "zip_enc_dec_prompts") =>
        LET enc == pre[Last.args[1].ref].list
            dec == pre[Last.args[2].ref].list
        IN  /\ Returned("zip_enc_dec_prompts")
            /\ IsPairList(Last.ret)
            /\ Len(RetList) = Min(Len(enc), Len(dec))
            /\ \A i \in DOMAIN RetList :
                  PairDict(Last.ret, i) =
                      [encoder_prompt |-> enc[i], decoder_prompt |-> dec[i]]
            /\ (enc = ScenarioEnc /\ dec = ScenarioDec) =>
                  /\ Len(RetList) = 2
                  /\ PairDict(Last.ret, 1) =
                        [encoder_prompt |-> Str("hello"),
                         decoder_prompt |-> Str("bar")]
                  /\ PairDict(Last.ret, 2) =
                        [encoder_prompt |-> Str("world"),
                         decoder_prompt |-> Str("baz")]

\* zip_enc_dec_prompts was called with ["hello","world","foo"] and
\* ["bar","baz"] and returned two pairs.
C4_Witness ==
    /\ Returned("zip_enc_dec_prompts")
    /\ pre[Last.args[1].ref].list = ScenarioEnc
    /\ pre[Last.args[2].ref].list = ScenarioDec
    /\ Len(RetList) = 2

\* The call of zip_enc_dec_prompts that returned the list l, if any.
ZipCallsOf(l) ==
    {k \in DOMAIN calls :
        calls[k].op = "zip_enc_dec_prompts" /\ calls[k].ret = l}

\* C5: to_enc_dec_tuple_list(zip_enc_dec_prompts(enc, dec)) is the list of
\* the tuples (enc[i], dec[i]) for the first min(len(enc), len(dec))
\* positions, in that order; when the lengths differ it is shorter than the
\* longer input, so the round trip gives back the truncated input.
C5_ZipRoundTrip ==
    (calls # <<>> /\ Last.op = "to_enc_dec_tuple_list") =>
        \A k \in ZipCallsOf(Last.args[1]) :
            LET enc == heap[calls[k].args[1].ref].list
                dec == heap[calls[k].args[2].ref].list
                n == Min(Len(enc), Len(dec))
            IN  /\ Returned("to_enc_dec_tuple_list")
                /\ IsList(heap[Last.ret.ref])
                /\ RetList = [i \in 1..n |-> Tuple(<<enc[i], dec[i]>>)]
                /\ Len(enc) > n => Len(RetList) < Len(enc)
                /\ Len(dec) > n => Len(RetList) < Len(dec)

\* The round trip was made on a two-element encoder list and a one-element
\* decoder list whose element is None.
C5_Witness ==
    /\ Returned("to_enc_dec_tuple_list")
    /\ \E k \in ZipCallsOf(Last.args[1]) :
          /\ Len(heap[calls[k].args[1].ref].list) = 2
          /\ heap[calls[k].args[2].ref].list = <<None>>
    /\ Len(RetList) = 1

\* The arguments of the call of build_explicit_enc_dec_prompt that returned
\* the pair v.
BuildArgsOf(v) ==
    calls[CHOOSE k \in DOMAIN calls :
              /\ calls[k].op = "build_explicit_enc_dec_prompt"
              /\ calls[k].ret = v].args

\* C6: to_enc_dec_tuple_list applied to a list of pairs that
\* build_explicit_enc_dec_prompt(e_i, d_i) built one at a time returns the
\* tuples (e_i, d_i), as many and in the same order, pairs without a
\* decoder prompt and repeated pairs included.
C6_UnzipInvertsPairing ==
    (/\ calls # <<>>
     /\ Last.op = "to_enc_dec_tuple_list"
     /\ \A i \in DOMAIN pre[Last.args[1].ref].list :
           pre[Last.args[1].ref].list[i] \in BuiltPairs) =>
        LET items == pre[Last.args[1].ref].list
        IN  /\ Returned("to_enc_dec_tuple_list")
            /\ IsList(heap[Last.ret.ref])
            /\ Len(RetList) = Len(items)
            /\ \A i \in DOMAIN items :
                  RetList[i] = Tuple(<<BuildArgsOf(items[i])[1],
                                       BuildArgsOf(items[i])[2]>>)

\* to_enc_dec_tuple_list was given the same pair twice, a pair built
\* without a decoder prompt.
C6_Witness ==
    /\ Returned("to_enc_dec_tuple_list")
    /\ Len(pre[Last.args[1].ref].list) = 2
    /\ pre[Last.args[1].ref].list[1] = pre[Last.args[1].ref].list[2]
    /\ pre[Last.args[1].ref].list[1] \in BuiltPairs
    /\ BuildArgsOf(pre[Last.args[1].ref].list[1])[2] = None
    /\ Len(RetList) = 2

\* v is a normalized EmptyInputs record or a singleton prompt.
IsEmptyInputsOrPrompt(v) ==
    \/ IsStr(v)
    \/ /\ IsRef(v)
       /\ IsDict(heap[v.ref])
       /\ DOMAIN heap[v.ref].dict \cap
             {"type", "prompt", "prompt_token_ids", "prompt_embeds"} # {}

\* C7: build_explicit_enc_dec_prompt(e, None) returns a pair with
\* encoder_prompt == e and decoder_prompt None; the pair is not the record
\* {type: "empty"}, and neither pairing, zipping nor unzipping turns a
\* missing decoder prompt into an EmptyInputs record or a singleton prompt.
C7_AbsentDecoderStaysAbsent ==
    /\ (calls # <<>> /\ Last.op = "build_explicit_enc_dec_prompt"
           /\ Last.args[2] = None) =>
          /\ Returned("build_explicit_enc_dec_prompt")
          /\ IsDict(heap[Last.ret.ref])
          /\ RetDict = [encoder_prompt |-> Last.args[1],
                        decoder_prompt |-> None]
          /\ heap[Last.ret.ref] # Dict([type |-> Str("empty")])
          /\ ~IsEmptyInputsOrPrompt(RetDict["decoder_prompt"])
    /\ (calls # <<>> /\ Last.op = "zip_enc_dec_prompts") =>
          /\ Returned("zip_enc_dec_prompts")
          /\ IsPairList(Last.ret)
          /\ \A i \in DOMAIN RetList :
                pre[Last.args[2].ref].list[i] = None =>
                    /\ PairDict(Last.ret, i)["decoder_prompt"] = None
                    /\ ~IsEmptyInputsOrPrompt(
                           PairDict(Last.ret, i)["decoder_prompt"])
    /\ (calls # <<>> /\ Last.op = "to_enc_dec_tuple_list") =>
          /\ Returned("to_enc_dec_tuple_list")
          /\ \A i \in DOMAIN RetList :
                pre[pre[Last.args[1].ref].list[i].ref].dict["decoder_prompt"]
                    = None =>
                    /\ RetList[i].tuple[2] = None
                    /\ ~IsEmptyInputsOrPrompt(RetList[i].tuple[2])

\* A TokensPrompt was paired with no decoder prompt.
C7_Witness ==
    /\ Returned("build_explicit_enc_dec_prompt")
    /\ IsTokensPrompt(heap, Last.args[1])
    /\ Last.args[2] = None
    /\ RetDict["decoder_prompt"] = None

\* C8: the multi_modal_data that token_inputs and embed_inputs store is the
\* value passed, unchanged; build_explicit_enc_dec_prompt and
\* zip_enc_dec_prompts take a decoder prompt that carries multi_modal_data
\* without raising, and the pair's decoder_prompt is that prompt, still
\* carrying the same multi_modal_data.
C8_MultiModalPassThrough ==
    /\ (calls # <<>> /\ Last.op = "token_inputs" /\ Last.args[3] # None) =>
          /\ Returned("token_inputs")
          /\ RetDict["multi_modal_data"] = Last.args[3]
          /\ heap[Last.args[3].ref] = pre[Last.args[3].ref]
    /\ (calls # <<>> /\ Last.op = "embed_inputs" /\ Last.args[2] # None) =>
          /\ Returned("embed_inputs")
          /\ RetDict["multi_modal_data"] = Last.args[2]
          /\ heap[Last.args[2].ref] = pre[Last.args[2].ref]
    /\ (calls # <<>> /\ Last.op = "build_explicit_enc_dec_prompt"
           /\ HasMultiModalData(pre, Last.args[2])) =>
          /\ Returned("build_explicit_enc_dec_prompt")
          /\ RetDict["decoder_prompt"] = Last.args[2]
          /\ heap[Last.args[2].ref] = pre[Last.args[2].ref]
          /\ heap[heap[Last.args[2].ref].dict["multi_modal_data"].ref] =
                pre[pre[Last.args[2].ref].dict["multi_modal_data"].ref]
    /\ (calls # <<>> /\ Last.op = "zip_enc_dec_prompts") =>
          LET enc == pre[Last.args[1].ref].list
              dec == pre[Last.args[2].ref].list
          IN  \A i \in 1..Min(Len(enc), Len(dec)) :
                  HasMultiModalData(pre, dec[i]) =>
                      /\ Returned("zip_enc_dec_prompts")
                      /\ i \in DOMAIN RetList
                      /\ PairDict(Last.ret, i)["decoder_prompt"] = dec[i]
                      /\ heap[dec[i].ref] = pre[dec[i].ref]
                      /\ heap[heap[dec[i].ref].dict["multi_modal_data"].ref] =
                            pre[pre[dec[i].ref].dict["multi_modal_data"].ref]

\* zip_enc_dec_prompts was given a decoder prompt that carries multi-modal
\* data and returned a pair holding it.
C8_Witness ==
    /\ Returned("zip_enc_dec_prompts")
    /\ RetList # <<>>
    /\ HasMultiModalData(pre, pre[Last.args[2].ref].list[1])
    /\ HasMultiModalData(heap, PairDict(Last.ret, 1)["decoder_prompt"])

Constructors == {"token_inputs", "embed_inputs", "empty_inputs"}

\* C9: every value one of the three constructors has returned, whatever
\* was called since, has a type among "token", "embed", "empty"; type is
\* "token" iff prompt_token_ids is a field, and then prompt_embeds is not;
\* type is "embed" iff prompt_embeds is a field, and then neither
\* prompt_token_ids nor prompt is; type is "empty" iff type is the only
\* field.
C9_TagMatchesFields ==
    \A k \in DOMAIN calls :
        calls[k].op \in Constructors =>
            /\ calls[k].exc = NoExc
            /\ IsRef(calls[k].ret)
            /\ IsDict(heap[calls[k].ret.ref])
            /\ LET d == heap[calls[k].ret.ref].dict
               IN  /\ "type" \in DOMAIN d
                   /\ d["type"] \in {Str("token"), Str("embed"), Str("empty")}
                   /\ (d["type"] = Str("token")) <=>
                         ("prompt_token_ids" \in DOMAIN d)
                   /\ (d["type"] = Str("token")) =>
                         ("prompt_embeds" \notin DOMAIN d)
                   /\ (d["type"] = Str("embed")) <=>
                         ("prompt_embeds" \in DOMAIN d)
                   /\ (d["type"] = Str("embed")) =>
                         /\ "prompt_token_ids" \notin DOMAIN d
                         /\ "prompt" \notin DOMAIN d
                   /\ (d["type"] = Str("empty")) <=> (DOMAIN d = {"type"})

\* The three constructors were called one after the other.
C9_Witness ==
    /\ Len(calls) >= 3
    /\ {calls[k].op : k \in DOMAIN calls} = Constructors
    /\ Last.op = "embed_inputs"
    /\ "multi_modal_data" \in DOMAIN RetDict

\* C10: a call changes no object that existed when it was made: the
\* token-id list, the prompt records, the multi-modal mapping, the lists of
\* prompts or pairs passed in and the values earlier calls returned are
\* what they were before the call.
C10_NoSideEffects ==
    /\ Len(heap) >= Len(pre)
    /\ \A a \in DOMAIN pre : heap[a] = pre[a]

\* to_enc_dec_tuple_list was called on a list zip_enc_dec_prompts had
\* returned, and the list and its pairs are still what they were.
C10_Witness ==
    /\ Returned("to_enc_dec_tuple_list")
    /\ ZipCallsOf(Last.args[1]) # {}
    /\ RetList # <<>>
    /\ heap[Last.args[1].ref] = pre[Last.args[1].ref]
    /\ \A i \in DOMAIN pre[Last.args[1].ref].list :
          IsExplicitEncoderDecoderPrompt(heap, pre[Last.args[1].ref].list[i])

====
